---------------------------- MODULE Spec2Model ----------------------------
(***************************************************************************)
(* A model of the tail-latency harness (src/src/main.cpp) and of the       *)
(* false-sharing experiment (src/experiments/02_false_sharing/main.cpp).   *)
(*                                                                         *)
(* Three specifications share the variables:                               *)
(*   Spec       one run of main(): mode selection, warmup, reservations,   *)
(*              measured loop, reduction, report, exit;                    *)
(*   SpecStats  compute_stats applied to bounded sample sequences;         *)
(*   SpecFS     one execution of run_case<Counters> with its three         *)
(*              threads, and FairSpecFS, the same under fair scheduling.   *)
(***************************************************************************)
EXTENDS Integers, Sequences, FiniteSets

VARIABLES
    pc,          \* position of main() / of the compute_stats driver / of run_case's main thread
    argv,        \* the command line, argv[0] included (argc = Len(argv))
    iters,       \* ITERS, main.cpp:123, scaled
    pf_pages,    \* PF_PAGES, main.cpp:142, scaled
    ldbits,      \* significand width of long double on the build (main.cpp:61)
    mode,        \* const Mode mode, main.cpp:116
    i,           \* the loop counter of the warmup loop, then of the measured loop
    sink,        \* volatile uint64_t sink, its low SINK_BITS bits
    page_buf,    \* std::vector<uint8_t> page_buf, one entry per page
    samples,     \* std::vector<uint64_t> samples
    clock_reads, \* number of Clock::now() calls made so far
    stats,       \* const Stats s, main.cpp:191
    out,         \* standard output, a sequence of printed lines
    err,         \* standard error, a sequence of printed lines
    exit_code,   \* the process status; -1 while running
    fs           \* the state of run_case: gates, counters, thread positions

vars == <<pc, argv, iters, pf_pages, ldbits, mode, i, sink, page_buf, samples,
          clock_reads, stats, out, err, exit_code, fs>>

(***************************************************************************)
(* Bounds of the model.                                                    *)
(***************************************************************************)
\* largest configured iteration count (ITERS is 1'000'000 in the source)
MaxIters == 5
\* largest page budget of the arena (PF_PAGES is 4096 in the source)
MaxPages == 3
\* warmup iterations (WARMUP_ITERS is 50'000 in the source)
WARMUP_ITERS == 2
\* width of the modelled low part of the 64-bit sink
SINK_BITS == 4
\* longest sample sequence handed to compute_stats in SpecStats
MaxLen == 5
\* largest n for which the rank index is compared with floor(q * (n - 1))
MaxRankN == 1100
\* width of the modelled low part of the 64-bit counters of run_case
COUNTER_BITS == 2

(***************************************************************************)
(* Binary floating point.  A value is [m |-> bits, e |-> exponent]: the    *)
(* significand as a sequence of bits, most significant first and starting  *)
(* with a 1, and the exponent of its last bit; zero is [m |-> <<>>, e |->  *)
(* 0].  All values of the program are non-negative.  Long significands are *)
(* multiplied and divided eight bits at a time, as sequences of base-256   *)
(* digits.                                                                 *)
(***************************************************************************)
FZero == [m |-> <<>>, e |-> 0]

\* the number of binary digits of n
BitLength(n) == CHOOSE L \in 0..30 : n < 2 ^ L /\ (L = 0 \/ n >= 2 ^ (L - 1))

\* the binary digits of n, most significant first (<<>> for 0)
NatBits(n) ==
    IF n = 0 THEN <<>>
    ELSE LET L == BitLength(n) IN [j \in 1..L |-> (n \div (2 ^ (L - j))) % 2]

RECURSIVE BitsNat(_)
\* the number a short sequence of bits denotes
BitsNat(b) ==
    IF b = <<>> THEN 0 ELSE 2 * BitsNat(SubSeq(b, 1, Len(b) - 1)) + b[Len(b)]

\* whether one of b[from..Len(b)] is 1
AnyOne(b, from) == \E j \in from..Len(b) : b[j] = 1

\* b without its leading zeros
Strip(b) ==
    IF ~AnyOne(b, 1) THEN <<>>
    ELSE LET first == CHOOSE j \in 1..Len(b) :
                          b[j] = 1 /\ \A t \in 1..(j - 1) : b[t] = 0
         IN  SubSeq(b, first, Len(b))

\* b + 1, one bit longer when b is all ones
Increment(b) ==
    IF \A j \in 1..Len(b) : b[j] = 1
    THEN [j \in 1..(Len(b) + 1) |-> IF j = 1 THEN 1 ELSE 0]
    ELSE LET z == CHOOSE j \in 1..Len(b) :
                      b[j] = 0 /\ \A t \in (j + 1)..Len(b) : b[t] = 1
         IN  [j \in 1..Len(b) |-> IF j < z THEN b[j] ELSE IF j = z THEN 1 ELSE 0]

\* the base-256 digits of the number b denotes
BitsLimbs(b) ==
    LET n   == (Len(b) + 7) \div 8
        pad == 8 * n - Len(b)
        p   == [q \in 1..(8 * n) |-> IF q <= pad THEN 0 ELSE b[q - pad]]
    IN  [j \in 1..n |-> BitsNat(SubSeq(p, 8 * (j - 1) + 1, 8 * j))]

\* the bits of a sequence of base-256 digits, leading zeros kept
LimbsBits(l) ==
    [q \in 1..(8 * Len(l)) |->
        (l[((q - 1) \div 8) + 1] \div (2 ^ (7 - ((q - 1) % 8)))) % 2]

\* Round the exact value (bits * 2^e, plus something in (0, 1) units of the
\* last bit when sticky) to nbits significant bits, to nearest, ties to even:
\* the rounding of every IEEE-754 operation in the default rounding mode.
RoundNearestEven(bits, e, sticky, nbits) ==
    IF Len(bits) <= nbits THEN [m |-> bits, e |-> e]
    ELSE LET kept  == SubSeq(bits, 1, nbits)
             guard == bits[nbits + 1]
             rest  == sticky \/ AnyOne(bits, nbits + 2)
             up    == guard = 1 /\ (rest \/ kept[nbits] = 1)
             r     == IF up THEN Increment(kept) ELSE kept
             drop  == Len(bits) - nbits
         IN  IF Len(r) > nbits
             THEN [m |-> SubSeq(r, 1, nbits), e |-> e + drop + 1]
             ELSE [m |-> r, e |-> e + drop]

RECURSIVE FracLimbs(_, _, _, _)
\* the next `count` base-256 digits of the fraction r / den (r < den),
\* appended to acc, and the remainder left
FracLimbs(acc, r, den, count) ==
    IF count = 0 THEN [limbs |-> acc, r |-> r]
    ELSE FracLimbs(Append(acc, (256 * r) \div den), (256 * r) % den, den,
                   count - 1)

\* num / den correctly rounded to nbits significant bits, for naturals num
\* and den > 0 that are exactly representable (they are far below 2^23).
FDiv(num, den, nbits) ==
    IF num = 0 THEN FZero
    ELSE LET ip == NatBits(num \div den)
             r0 == num % den
         IN  IF r0 = 0 THEN RoundNearestEven(ip, 0, FALSE, nbits)
             ELSE LET \* enough digits for nbits + 2 significant bits after
                      \* the at most 23 leading zeros of the fraction
                      count == ((nbits + 2 + 23) \div 8) + 1
                      q     == FracLimbs(<<>>, r0, den, count)
                      all   == Strip(ip \o LimbsBits(q.limbs))
                  IN  RoundNearestEven(all, 0 - 8 * count, q.r # 0, nbits)

RECURSIVE MulLimbs(_, _, _, _)
\* l[1..pos] * k + carry, in base-256 digits
MulLimbs(l, pos, k, carry) ==
    IF pos = 0
    THEN <<carry \div 65536, (carry \div 256) % 256, carry % 256>>
    ELSE Append(MulLimbs(l, pos - 1, k, (l[pos] * k + carry) \div 256),
                (l[pos] * k + carry) % 256)

\* the bits of (the number bits denotes) * k, for 0 < k < 2^23
MulBits(bits, k) ==
    LET l == BitsLimbs(bits) IN Strip(LimbsBits(MulLimbs(l, Len(l), k, 0)))

\* x * k correctly rounded to nbits significant bits, k a natural that is
\* exactly representable.
FMulNat(x, k, nbits) ==
    IF x.m = <<>> \/ k = 0 THEN FZero
    ELSE RoundNearestEven(MulBits(x.m, k), x.e, FALSE, nbits)

\* Rounding a value of a wider format to nbits significant bits.
FNarrow(x, nbits) == RoundNearestEven(x.m, x.e, FALSE, nbits)

\* static_cast<size_t>(x): truncation toward zero.
FTrunc(x) ==
    IF x.m = <<>> THEN 0
    ELSE IF x.e >= 0 THEN BitsNat(x.m) * (2 ^ x.e)
    ELSE IF Len(x.m) + x.e <= 0 THEN 0
    ELSE BitsNat(SubSeq(x.m, 1, Len(x.m) + x.e))

\* whether x has a non-zero fractional part
FHasFraction(x) ==
    /\ x.m # <<>>
    /\ x.e < 0
    /\ AnyOne(x.m, IF Len(x.m) + x.e < 0 THEN 1 ELSE Len(x.m) + x.e + 1)

\* comparisons of a floating-point value with a natural number
FLeqNat(x, n) == FTrunc(x) < n \/ (FTrunc(x) = n /\ ~FHasFraction(x))
FGeqNat(x, n) == FTrunc(x) >= n
FEqNat(x, n)  == FTrunc(x) = n /\ ~FHasFraction(x)

\* x <= 0.0 and x >= 1.0 for the non-negative values of the model
FLeqZero(x) == x.m = <<>>
FGeqOne(x)  == FGeqNat(x, 1)

(***************************************************************************)
(* Helpers: percentiles + stats (main.cpp:24-83).                          *)
(***************************************************************************)
\* the significand widths long double has on the builds of the program:
\* binary64 (long double = double), x87 extended, binary128
LongDoubleBits == {53, 64, 113}

\* the double a decimal literal num/den denotes (correctly rounded)
DoubleLiteral(num, den) == FDiv(num, den, 53)

\* a variant of rank_index that scales by the size, not by the last index
rank_index_of_size(p, size) == FTrunc(FMulNat(p, size, 53))

\* const double idx = p * (sorted.size() - 1); static_cast<size_t>(idx)
rank_index(p, size) == FTrunc(FMulNat(p, size - 1, 53))

percentile_sorted(sorted, p) ==
    IF sorted = <<>> THEN 0
    ELSE IF FLeqZero(p) THEN sorted[1]
    ELSE IF FGeqOne(p) THEN sorted[Len(sorted)]
    ELSE sorted[rank_index(p, Len(sorted)) + 1]

\* a variant of Stats without default member initialisers: the fields of a
\* default-initialised Stats hold whatever the stack held
Stats_uninitialised == [min |-> 1, max |-> 1, avg |-> FZero,
                        p50 |-> 1, p90 |-> 1, p99 |-> 1, p999 |-> 1]

\* struct Stats with its default member initialisers
Stats == [min |-> 0, max |-> 0, avg |-> FZero,
          p50 |-> 0, p90 |-> 0, p99 |-> 0, p999 |-> 0]

RECURSIVE min_element(_)
min_element(s) ==
    IF Len(s) = 1 THEN s[1]
    ELSE LET m == min_element(Tail(s)) IN IF m < s[1] THEN m ELSE s[1]

RECURSIVE max_element(_)
max_element(s) ==
    IF Len(s) = 1 THEN s[1]
    ELSE LET m == max_element(Tail(s)) IN IF s[1] < m THEN m ELSE s[1]

RECURSIVE accumulate_narrow(_, _)
\* a variant of accumulate whose accumulator is an integer too narrow for
\* the sum (here 7 bits wide), as std::accumulate with an integer init is
accumulate_narrow(s, init) ==
    IF s = <<>> THEN init ELSE accumulate_narrow(Tail(s), (init + Head(s)) % 128)

RECURSIVE accumulate(_, _)
\* std::accumulate with a long double accumulator: every partial sum of the
\* model is a natural far below 2^53, so each addition is exact
accumulate(s, init) ==
    IF s = <<>> THEN init ELSE accumulate(Tail(s), init + Head(s))

RECURSIVE insert_sorted(_, _)
insert_sorted(s, x) ==
    IF s = <<>> THEN <<x>>
    ELSE IF x < Head(s) THEN <<x>> \o s
    ELSE <<Head(s)>> \o insert_sorted(Tail(s), x)

\* a variant of sort that leaves the sequence as it is
sort_missing(s) == s

RECURSIVE sort(_)
\* std::sort(begin, end): the ascending permutation
sort(s) == IF s = <<>> THEN <<>> ELSE insert_sorted(sort(Tail(s)), Head(s))

\* s.avg = (double)(sum / (long double)samples.size())
mean(sum, size, ld) == FNarrow(FDiv(sum, size, ld), 53)

\* the quantile literals 0.50, 0.90, 0.99 and 0.999 as doubles
Q50  == DoubleLiteral(50, 100)
Q90  == DoubleLiteral(90, 100)
Q99  == DoubleLiteral(99, 100)
Q999 == DoubleLiteral(999, 1000)

\* compute_stats(samples) on a build whose long double has ld significand
\* bits; `sorted` is the function's own copy after std::sort
compute_stats(smp, ld) ==
    IF smp = <<>> THEN Stats
    ELSE LET sum    == accumulate(smp, 0)
             sorted == sort(smp)
         IN  [min  |-> min_element(smp),
              max  |-> max_element(smp),
              avg  |-> mean(sum, Len(smp), ld),
              p50  |-> percentile_sorted(sorted, Q50),
              p90  |-> percentile_sorted(sorted, Q90),
              p99  |-> percentile_sorted(sorted, Q99),
              p999 |-> percentile_sorted(sorted, Q999)]

\* std::fixed << std::setprecision(2): the value in hundredths, the exact
\* binary value rounded to nearest, ties to even
fixed2(x) ==
    IF x.m = <<>> THEN 0
    ELSE LET b    == MulBits(x.m, 100)
             ints == Len(b) + x.e
         IN  IF x.e >= 0 THEN BitsNat(b) * (2 ^ x.e)
             ELSE IF ints < 0 THEN 0
             ELSE IF ints = 0
                  THEN (IF AnyOne(b, 2) THEN 1 ELSE 0)
             ELSE FTrunc(RoundNearestEven(b, x.e, FALSE, ints))

\* the lines print_stats writes to standard output
print_stats(s) ==
    << <<"Latency (ns) per iteration">>,
       <<"min:", s.min>>,
       <<"avg:", fixed2(s.avg)>>,
       <<"p50:", s.p50>>,
       <<"p90:", s.p90>>,
       <<"p99:", s.p99>>,
       <<"p99.9:", s.p999>>,
       <<"max:", s.max>> >>

(***************************************************************************)
(* Workload modes and the command line (main.cpp:97-109).                  *)
(***************************************************************************)
Mode == {"Baseline", "Syscall", "Pagefault"}

\* a variant of parse_mode that compares the names without regard to case
parse_mode_any_case(argc, av) ==
    IF argc < 2 THEN "Baseline"
    ELSE LET m == av[2]
         IN  IF m \in {"baseline", "Baseline"} THEN "Baseline"
             ELSE IF m \in {"syscall", "Syscall"} THEN "Syscall"
             ELSE IF m \in {"pagefault", "Pagefault"} THEN "Pagefault"
             ELSE "Baseline"

\* argv[k] of the source is av[k + 1]
parse_mode(argc, av) ==
    IF argc < 2 THEN "Baseline"
    ELSE LET m == av[2]
         IN  IF m = "baseline" THEN "Baseline"
             ELSE IF m = "syscall" THEN "Syscall"
             ELSE IF m = "pagefault" THEN "Pagefault"
             ELSE "Baseline"

\* the command lines the model runs
Argvs ==
    { <<"prog">>,
      <<"prog", "baseline">>, <<"prog", "syscall">>, <<"prog", "pagefault">>,
      <<"prog", "Syscall">>, <<"prog", "">>,
      <<"prog", "fast", "syscall">>, <<"prog", "pagefault", "baseline">> }

(***************************************************************************)
(* The sink (main.cpp:126, 130, 164).  Addition, multiplication, shift     *)
(* left and xor of the low SINK_BITS bits give the low SINK_BITS bits of   *)
(* the 64-bit results.                                                     *)
(***************************************************************************)
SinkMod == 2 ^ SINK_BITS

\* 1315423911ull
WARMUP_MULT == 1315423911

\* the low 16 bits, 0x7c15, of 0x9e3779b97f4a7c15ull
MIX_ADD_LOW == 31765

RECURSIVE Xor(_, _)
Xor(a, b) ==
    IF a = 0 THEN b
    ELSE IF b = 0 THEN a
    ELSE 2 * Xor(a \div 2, b \div 2) + (((a % 2) + (b % 2)) % 2)

\* sink += (uint64_t)i * 1315423911ull
warmup_step(s, k) == (s + (k % SinkMod) * (WARMUP_MULT % SinkMod)) % SinkMod

\* sink ^= (sink << 1) + 0x9e3779b97f4a7c15ull
mix(s) == Xor(s, (2 * s + MIX_ADD_LOW) % SinkMod)

(***************************************************************************)
(* The page arena (main.cpp:138, 145, 177).  One entry per page: the       *)
(* value of the page's first byte and the number of stores made so far to  *)
(* the page.                                                               *)
(***************************************************************************)
\* std::vector<uint8_t> page_buf;
EmptyBuf == <<>>

\* page_buf.resize(PF_PAGES * page_size): every new element is
\* value-initialised, that is, a zero is stored into every byte of every page
resize(pages) == [p \in 1..pages |-> [byte |-> 0, stores |-> 1]]

\* page_buf[page * page_size]++ on a uint8_t
touch(buf, page) ==
    [buf EXCEPT ![page + 1] = [byte   |-> (buf[page + 1].byte + 1) % 256,
                               stores |-> buf[page + 1].stores + 1]]

(***************************************************************************)
(* main (main.cpp:115-201), one action per step.                           *)
(***************************************************************************)
\* elapsed nanoseconds a pair of Clock::now() reads can report: none on a
\* coarse clock, or some
ElapsedVals == {0, 1}

\* a variant of terminate: the exception is caught, reported, and the run
\* goes on to the report
terminate_swallowed ==
    /\ err' = Append(err, <<"allocation failed">>)
    /\ exit_code' = exit_code
    /\ pc' = "reduce"

\* what the runtime does with the uncaught std::bad_alloc / std::length_error
\* of a failed reservation: std::terminate reports on standard error and
\* aborts (SIGABRT, status 134); nothing is written to standard output
terminate ==
    /\ err' = Append(err, <<"terminate called after throwing an instance of">>)
    /\ exit_code' = 134
    /\ pc' = "aborted"

Init ==
    /\ pc = "start"
    /\ argv \in Argvs
    /\ iters \in 0..MaxIters
    /\ pf_pages \in 1..MaxPages
    /\ ldbits \in LongDoubleBits
    /\ mode = "unset"
    /\ i = 0
    /\ sink = 0
    /\ page_buf = EmptyBuf
    /\ samples = <<>>
    /\ clock_reads = 0
    /\ stats = Stats
    /\ out = <<>>
    /\ err = <<>>
    /\ exit_code = -1
    /\ fs = <<>>

\* const Mode mode = parse_mode(argc, argv); volatile uint64_t sink = 0;
ParseMode ==
    /\ pc = "start"
    /\ mode' = parse_mode(Len(argv), argv)
    /\ sink' = 0
    /\ i' = 0
    /\ pc' = "warmup"
    /\ UNCHANGED <<argv, iters, pf_pages, ldbits, page_buf, samples,
                   clock_reads, stats, out, err, exit_code, fs>>

\* one iteration of the warmup loop
WarmupIter ==
    /\ pc = "warmup"
    /\ i < WARMUP_ITERS
    /\ sink' = warmup_step(sink, i)
    /\ i' = i + 1
    /\ UNCHANGED <<pc, argv, iters, pf_pages, ldbits, mode, page_buf, samples,
                   clock_reads, stats, out, err, exit_code, fs>>

\* the warmup loop exits
WarmupExit ==
    /\ pc = "warmup"
    /\ ~(i < WARMUP_ITERS)
    /\ pc' = "reserve_arena"
    /\ UNCHANGED <<argv, iters, pf_pages, ldbits, mode, i, sink, page_buf,
                   samples, clock_reads, stats, out, err, exit_code, fs>>

\* if (mode == Mode::Pagefault) is false
SkipArena ==
    /\ pc = "reserve_arena"
    /\ mode # "Pagefault"
    /\ pc' = "reserve_samples"
    /\ UNCHANGED <<argv, iters, pf_pages, ldbits, mode, i, sink, page_buf,
                   samples, clock_reads, stats, out, err, exit_code, fs>>

\* page_buf.resize(PF_PAGES * (size_t)page_size) succeeds
ResizeArena ==
    /\ pc = "reserve_arena"
    /\ mode = "Pagefault"
    /\ page_buf' = resize(pf_pages)
    /\ pc' = "reserve_samples"
    /\ UNCHANGED <<argv, iters, pf_pages, ldbits, mode, i, sink, samples,
                   clock_reads, stats, out, err, exit_code, fs>>

\* page_buf.resize throws
ResizeArenaFails ==
    /\ pc = "reserve_arena"
    /\ mode = "Pagefault"
    /\ terminate
    /\ UNCHANGED <<argv, iters, pf_pages, ldbits, mode, i, sink, page_buf,
                   samples, clock_reads, stats, out, fs>>

\* samples.reserve(ITERS) succeeds; the measured loop starts at i = 0
ReserveSamples ==
    /\ pc = "reserve_samples"
    /\ i' = 0
    /\ pc' = "measure"
    /\ UNCHANGED <<argv, iters, pf_pages, ldbits, mode, sink, page_buf,
                   samples, clock_reads, stats, out, err, exit_code, fs>>

\* samples.reserve(ITERS) throws
ReserveSamplesFails ==
    /\ pc = "reserve_samples"
    /\ terminate
    /\ UNCHANGED <<argv, iters, pf_pages, ldbits, mode, i, sink, page_buf,
                   samples, clock_reads, stats, out, fs>>

\* a variant of timed that keeps no sample of an iteration that took 0 ns
timed_skip_zero(ns) ==
    /\ clock_reads' = clock_reads + 2
    /\ samples' = IF ns = 0 THEN samples ELSE Append(samples, ns)
    /\ i' = i + 1

\* t0 = Clock::now(); ...; t1 = Clock::now(); samples.push_back(ns)
timed(ns) ==
    /\ clock_reads' = clock_reads + 2
    /\ samples' = Append(samples, ns)
    /\ i' = i + 1

\* one measured iteration in Baseline mode
IterBaseline ==
    /\ pc = "measure"
    /\ i < iters
    /\ mode = "Baseline"
    /\ sink' = mix(sink)
    /\ \E ns \in ElapsedVals : timed(ns)
    /\ UNCHANGED <<pc, argv, iters, pf_pages, ldbits, mode, page_buf, stats,
                   out, err, exit_code, fs>>

\* one measured iteration in Syscall mode: (void)getpid() changes nothing
IterSyscall ==
    /\ pc = "measure"
    /\ i < iters
    /\ mode = "Syscall"
    /\ sink' = mix(sink)
    /\ \E ns \in ElapsedVals : timed(ns)
    /\ UNCHANGED <<pc, argv, iters, pf_pages, ldbits, mode, page_buf, stats,
                   out, err, exit_code, fs>>

\* one measured iteration in Pagefault mode
IterPagefault ==
    /\ pc = "measure"
    /\ i < iters
    /\ mode = "Pagefault"
    /\ page_buf' = touch(page_buf, i % pf_pages)
    /\ sink' = mix(sink)
    /\ \E ns \in ElapsedVals : timed(ns)
    /\ UNCHANGED <<pc, argv, iters, pf_pages, ldbits, mode, stats, out, err,
                   exit_code, fs>>

\* the measured loop exits
LoopExit ==
    /\ pc = "measure"
    /\ ~(i < iters)
    /\ pc' = "reduce"
    /\ UNCHANGED <<argv, iters, pf_pages, ldbits, mode, i, sink, page_buf,
                   samples, clock_reads, stats, out, err, exit_code, fs>>

\* a variant of after_reduce: compute_stats takes the vector by reference
\* and sorts the caller's
after_reduce_by_reference(smp) == sort(smp)

\* the caller's vector after compute_stats(samples), which takes it by value
after_reduce(smp) == smp

\* const Stats s = compute_stats(samples);
Reduce ==
    /\ pc = "reduce"
    /\ stats' = compute_stats(samples, ldbits)
    /\ samples' = after_reduce(samples)
    /\ pc' = "print"
    /\ UNCHANGED <<argv, iters, pf_pages, ldbits, mode, i, sink, page_buf,
                   clock_reads, out, err, exit_code, fs>>

\* print_stats(s);
PrintStats ==
    /\ pc = "print"
    /\ out' = out \o print_stats(stats)
    /\ pc' = "report_sink"
    /\ UNCHANGED <<argv, iters, pf_pages, ldbits, mode, i, sink, page_buf,
                   samples, clock_reads, stats, err, exit_code, fs>>

\* std::cerr << "sink=" << sink << "\n"; return 0;
ReportSink ==
    /\ pc = "report_sink"
    /\ err' = Append(err, <<"sink=", sink>>)
    /\ exit_code' = 0
    /\ pc' = "exited"
    /\ UNCHANGED <<argv, iters, pf_pages, ldbits, mode, i, sink, page_buf,
                   samples, clock_reads, stats, out, fs>>

Next ==
    \/ ParseMode
    \/ WarmupIter
    \/ WarmupExit
    \/ SkipArena
    \/ ResizeArena
    \/ ResizeArenaFails
    \/ ReserveSamples
    \/ ReserveSamplesFails
    \/ IterBaseline
    \/ IterSyscall
    \/ IterPagefault
    \/ LoopExit
    \/ Reduce
    \/ PrintStats
    \/ ReportSink

Spec == Init /\ [][Next]_vars

(***************************************************************************)
(* compute_stats as a function of its argument: the sample sequences of    *)
(* at most MaxLen entries over SampleVals, on each build.                  *)
(***************************************************************************)
\* the nanosecond values of the samples
SampleVals == {10, 20, 30, 40, 50}

SampleSeqs == UNION {[1..n -> SampleVals] : n \in 0..MaxLen}

InitStats ==
    /\ pc = "stats_call"
    /\ samples \in SampleSeqs
    /\ ldbits \in LongDoubleBits
    /\ stats = Stats
    /\ argv = <<>>
    /\ iters = 0
    /\ pf_pages = 0
    /\ mode = "unset"
    /\ i = 0
    /\ sink = 0
    /\ page_buf = EmptyBuf
    /\ clock_reads = 0
    /\ out = <<>>
    /\ err = <<>>
    /\ exit_code = -1
    /\ fs = <<>>

\* Stats s = compute_stats(samples)
StatsCall ==
    /\ pc = "stats_call"
    /\ stats' = compute_stats(samples, ldbits)
    /\ samples' = after_reduce(samples)
    /\ pc' = "stats_returned"
    /\ UNCHANGED <<argv, iters, pf_pages, ldbits, mode, i, sink, page_buf,
                   clock_reads, out, err, exit_code, fs>>

NextStats == StatsCall

SpecStats == InitStats /\ [][NextStats]_vars

(***************************************************************************)
(* run_case<Counters> (02_false_sharing/main.cpp:32-105).  fs holds the    *)
(* two gates, the two counters (their low COUNTER_BITS bits) and the       *)
(* position of each worker; pc is the position of the calling thread.      *)
(* The atomics are single shared cells: every load reads the last store.   *)
(***************************************************************************)
CounterMod == 2 ^ COUNTER_BITS

Workers == {1, 2}

\* a variant of load_stop: the flag is read once, before the gate is set,
\* and the loop tests the value it read
load_stop_hoisted(f) == FALSE

\* stop.load(std::memory_order_relaxed)
load_stop(f) == f.stop

\* start.load(std::memory_order_acquire)
load_start(f) == f.start

\* c.a.fetch_add(1) / c.b.fetch_add(1) (c.a.x / c.b.x in the padded layout)
fetch_add(f, w) ==
    IF w = 1 THEN [f EXCEPT !.a = (f.a + 1) % CounterMod]
    ELSE [f EXCEPT !.b = (f.b + 1) % CounterMod]

FsUnused ==
    /\ argv = <<>>
    /\ iters = 0
    /\ pf_pages = 0
    /\ ldbits = 53
    /\ mode = "unset"
    /\ i = 0
    /\ sink = 0
    /\ page_buf = EmptyBuf
    /\ samples = <<>>
    /\ clock_reads = 0
    /\ stats = Stats
    /\ err = <<>>
    /\ exit_code = -1

\* Counters c; std::atomic<bool> start{false}; std::atomic<bool> stop{false};
InitFS ==
    /\ pc = "fs_spawn1"
    /\ fs \in [layout : {"packed", "padded"}, start : {FALSE}, stop : {FALSE},
               a : {0}, b : {0}, t : {[w \in Workers |-> "unborn"]},
               total : {0}]
    /\ out = <<>>
    /\ FsUnused

FsRest == <<argv, iters, pf_pages, ldbits, mode, i, sink, page_buf, samples,
            clock_reads, stats, err, exit_code>>

\* auto t0 = Clock::now(); t1 = std::thread(w1) (or workerA)
Spawn1 ==
    /\ pc = "fs_spawn1"
    /\ fs' = [fs EXCEPT !.t[1] = "spin"]
    /\ pc' = "fs_spawn2"
    /\ UNCHANGED <<out, FsRest>>

\* t2 = std::thread(w2) (or workerB)
Spawn2 ==
    /\ pc = "fs_spawn2"
    /\ fs' = [fs EXCEPT !.t[2] = "spin"]
    /\ pc' = "fs_start"
    /\ UNCHANGED <<out, FsRest>>

\* start.store(true, std::memory_order_release)
StoreStart ==
    /\ pc = "fs_start"
    /\ fs' = [fs EXCEPT !.start = TRUE]
    /\ pc' = "fs_sleep"
    /\ UNCHANGED <<out, FsRest>>

\* std::this_thread::sleep_for(std::chrono::seconds(seconds)) returns
Sleep ==
    /\ pc = "fs_sleep"
    /\ pc' = "fs_stop"
    /\ UNCHANGED <<fs, out, FsRest>>

\* stop.store(true, std::memory_order_release)
StoreStop ==
    /\ pc = "fs_stop"
    /\ fs' = [fs EXCEPT !.stop = TRUE]
    /\ pc' = "fs_join1"
    /\ UNCHANGED <<out, FsRest>>

\* t1.join() returns: worker 1 has finished
Join1 ==
    /\ pc = "fs_join1"
    /\ fs.t[1] = "done"
    /\ pc' = "fs_join2"
    /\ UNCHANGED <<fs, out, FsRest>>

\* t2.join() returns: worker 2 has finished
Join2 ==
    /\ pc = "fs_join2"
    /\ fs.t[2] = "done"
    /\ pc' = "fs_total"
    /\ UNCHANGED <<fs, out, FsRest>>

\* total = a + b; the three lines of the report; return total
ReportTotal ==
    /\ pc = "fs_total"
    /\ fs' = [fs EXCEPT !.total = (fs.a + fs.b) % CounterMod]
    /\ out' = out \o << <<"label">>, <<"total ops:", (fs.a + fs.b) % CounterMod>>,
                        <<"ops/sec :">> >>
    /\ pc' = "fs_returned"
    /\ UNCHANGED FsRest

\* while (!start.load(acquire)) {} exits
SpinExit(w) ==
    /\ fs.t[w] = "spin"
    /\ load_start(fs)
    /\ fs' = [fs EXCEPT !.t[w] = "check"]
    /\ UNCHANGED <<pc, out, FsRest>>

\* while (!stop.load(relaxed)): the loop goes on
StopUnset(w) ==
    /\ fs.t[w] = "check"
    /\ ~load_stop(fs)
    /\ fs' = [fs EXCEPT !.t[w] = "add"]
    /\ UNCHANGED <<pc, out, FsRest>>

\* while (!stop.load(relaxed)): the loop exits and the worker returns
StopSeen(w) ==
    /\ fs.t[w] = "check"
    /\ load_stop(fs)
    /\ fs' = [fs EXCEPT !.t[w] = "done"]
    /\ UNCHANGED <<pc, out, FsRest>>

\* the loop body
Add(w) ==
    /\ fs.t[w] = "add"
    /\ fs' = [fetch_add(fs, w) EXCEPT !.t[w] = "check"]
    /\ UNCHANGED <<pc, out, FsRest>>

Caller ==
    \/ Spawn1
    \/ Spawn2
    \/ StoreStart
    \/ Sleep
    \/ StoreStop
    \/ Join1
    \/ Join2
    \/ ReportTotal

Worker(w) ==
    \/ SpinExit(w)
    \/ StopUnset(w)
    \/ StopSeen(w)
    \/ Add(w)

NextFS == Caller \/ \E w \in Workers : Worker(w)

SpecFS == InitFS /\ [][NextFS]_vars

\* every thread that can run is eventually scheduled
FairSpecFS ==
    /\ SpecFS
    /\ WF_vars(Caller)
    /\ \A w \in Workers : WF_vars(Worker(w))

(***************************************************************************)
(* Definitions the properties are stated with.  They are written from the  *)
(* statements, not from the operators above.                               *)
(***************************************************************************)
RECURSIVE SumOf(_)
SumOf(s) == IF s = <<>> THEN 0 ELSE s[1] + SumOf(Tail(s))

\* the entry at index k (from 0) of the ascending rearrangement of s
OrderStat(s, k) ==
    CHOOSE v \in {s[j] : j \in 1..Len(s)} :
        /\ Cardinality({j \in 1..Len(s) : s[j] < v}) <= k
        /\ k < Cardinality({j \in 1..Len(s) : s[j] <= v})

\* floor(q * (n - 1)) for q = num / den
FloorRank(num, den, n) == (num * (n - 1)) \div den

\* the modes main() runs in, and the positions before the measured loop
BeforeLoop == {"start", "warmup", "reserve_arena", "reserve_samples"}
AfterLoop  == {"reduce", "print", "report_sink", "exited"}

\* C1: when the measured loop has finished the sample sequence holds exactly
\* ITERS entries, for every ITERS >= 0; after k measured iterations it holds
\* exactly k; nothing is appended before the measured loop (the warmup
\* included).
C1_OneSamplePerIteration ==
    /\ pc \in BeforeLoop \cup {"aborted"} => samples = <<>>
    /\ pc = "measure" => Len(samples) = i /\ i <= iters
    /\ pc \in AfterLoop => Len(samples) = iters

\* C1 witness: a run whose measured loop made its MaxIters iterations
C1_Witness == pc = "reduce" /\ iters = MaxIters /\ Len(samples) = MaxIters

\* C2: for a non-empty sample sequence the summary compute_stats returns
\* has min <= p50 <= p90 <= p99 <= p999 <= max.
C2_QuantilesMonotone ==
    (pc = "stats_returned" /\ samples # <<>>) =>
        /\ stats.min <= stats.p50
        /\ stats.p50 <= stats.p90
        /\ stats.p90 <= stats.p99
        /\ stats.p99 <= stats.p999
        /\ stats.p999 <= stats.max

\* C2 witness: a summary of an unsorted sequence with spread-out quantiles
C2_Witness ==
    /\ pc = "stats_returned"
    /\ Len(samples) >= 2
    /\ samples[1] > samples[Len(samples)]
    /\ stats.min < stats.p50
    /\ stats.p50 < stats.p90
    /\ stats.p999 < stats.max

\* the rank index the double arithmetic yields is floor(q * (n - 1)), for
\* every length up to MaxRankN
RankIndexExact ==
    \A n \in 1..MaxRankN :
        /\ rank_index(Q50, n) = FloorRank(50, 100, n)
        /\ rank_index(Q90, n) = FloorRank(90, 100, n)
        /\ rank_index(Q99, n) = FloorRank(99, 100, n)
        /\ rank_index(Q999, n) = FloorRank(999, 1000, n)

\* C3: for a non-empty sequence of length n, compute_stats reports for
\* each q in {0.50, 0.90, 0.99, 0.999} the entry at index floor(q * (n - 1))
\* of the ascending rearrangement, an index within 0..n-1; and for
\* [10, 20, 30, 40, 50] it reports min 10, max 50, mean 30, p50 30, p90 40,
\* p99 40, p999 40.
C3_NearestRank ==
    /\ RankIndexExact
    /\ (pc = "stats_returned" /\ samples # <<>>) =>
          LET n == Len(samples)
          IN  /\ FloorRank(999, 1000, n) \in 0..(n - 1)
              /\ stats.p50  = OrderStat(samples, FloorRank(50, 100, n))
              /\ stats.p90  = OrderStat(samples, FloorRank(90, 100, n))
              /\ stats.p99  = OrderStat(samples, FloorRank(99, 100, n))
              /\ stats.p999 = OrderStat(samples, FloorRank(999, 1000, n))
    /\ (pc = "stats_returned" /\ samples = <<10, 20, 30, 40, 50>>) =>
          /\ stats.min = 10 /\ stats.max = 50 /\ FEqNat(stats.avg, 30)
          /\ stats.p50 = 30 /\ stats.p90 = 40
          /\ stats.p99 = 40 /\ stats.p999 = 40

\* C3 witness: the summary of [10, 20, 30, 40, 50]
C3_Witness == pc = "stats_returned" /\ samples = <<10, 20, 30, 40, 50>>

\* C7: for the empty sequence compute_stats returns a summary whose seven
\* fields are zero, and percentile_sorted returns 0.
C7_EmptyIsZero ==
    /\ (pc = "stats_returned" /\ samples = <<>>) =>
          /\ stats.min = 0 /\ stats.max = 0 /\ FEqNat(stats.avg, 0)
          /\ stats.p50 = 0 /\ stats.p90 = 0
          /\ stats.p99 = 0 /\ stats.p999 = 0
    /\ \A q \in {Q50, Q90, Q99, Q999} : percentile_sorted(<<>>, q) = 0

\* C7 witness: compute_stats has returned for the empty sequence
C7_Witness == pc = "stats_returned" /\ samples = <<>>

NextPage == (i % pf_pages) + 1

\* C4: in Pagefault mode with P pages, measured iteration i writes to page
\* i mod P, and that write is the first store to the page exactly when
\* i < P: nothing, the reservation included, stores to a page of the arena
\* before the measured loop.
C4_FirstTouch ==
    (pc = "measure" /\ mode = "Pagefault" /\ i < iters) =>
        /\ NextPage \in DOMAIN page_buf
        /\ (page_buf[NextPage].stores = 0) <=> (i < pf_pages)

\* the alternatives of C5
RanToCompletion ==
    /\ pc = "exited"
    /\ Len(samples) = iters
    /\ out = print_stats(stats)
    /\ exit_code = 0

AbortedWithoutReport ==
    /\ pc = "aborted"
    /\ err # <<>>
    /\ exit_code > 0
    /\ out = <<>>

\* the page arena was asked for and is not there
ArenaReservationFailed == mode = "Pagefault" /\ page_buf = EmptyBuf

SelectedMode ==
    IF Len(argv) >= 2 /\ argv[2] = "syscall" THEN "Syscall"
    ELSE IF Len(argv) >= 2 /\ argv[2] = "pagefault" THEN "Pagefault"
    ELSE "Baseline"

\* C6: parse_mode returns Syscall exactly for a first argument "syscall",
\* Pagefault exactly for "pagefault" and Baseline otherwise (no argument
\* included); it always returns, and the mode never changes afterwards.
C6_ModeSelection ==
    /\ [](pc # "start" => mode = SelectedMode)
    /\ [][(pc = "start" => pc' = "warmup") /\ (pc # "start" => mode' = mode)]_vars

\* C6 witness: a completed run whose first argument is no mode name
C6_Witness ==
    /\ pc = "exited"
    /\ Len(argv) >= 2
    /\ argv[2] = "Syscall"
    /\ mode = "Baseline"

\* the order of the phases
PhaseOrder ==
    { <<"start", "warmup">>, <<"warmup", "reserve_arena">>,
      <<"reserve_arena", "reserve_samples">>, <<"reserve_arena", "aborted">>,
      <<"reserve_samples", "measure">>, <<"reserve_samples", "aborted">>,
      <<"measure", "reduce">>, <<"reduce", "print">>,
      <<"print", "report_sink">>, <<"report_sink", "exited">> }

\* C9: the phases follow one another in the order mode selection, warmup,
\* measured loop, reduction, print; the warmup runs all its iterations,
\* reads no clock and ends before the first sample; the samples are only
\* appended to during the measured loop, the summary is computed only when
\* no measured iteration remains, and the reduction leaves the caller's
\* sample sequence as it was; what is printed is the summary of it.
C9_PhaseOrder ==
    /\ [](/\ pc \in BeforeLoop => (clock_reads = 0 /\ samples = <<>>)
          /\ clock_reads = 2 * Len(samples)
          /\ pc \in {"print", "report_sink", "exited"} =>
                stats = compute_stats(samples, ldbits)
          /\ pc \in {"report_sink", "exited"} => out = print_stats(stats))
    /\ [][/\ pc' # pc => <<pc, pc'>> \in PhaseOrder
          /\ (pc = "warmup" /\ pc' # "warmup") => i = WARMUP_ITERS
          /\ samples' # samples =>
                (pc = "measure" /\ pc' = "measure" /\ i < iters
                 /\ \E ns \in ElapsedVals : samples' = Append(samples, ns))
          /\ pc = "reduce" => (i = iters /\ Len(samples) = iters /\ samples' = samples)
          /\ stats' # stats => pc = "reduce"]_vars

\* C9 witness: after the reduction the caller's samples are still unsorted
C9_Witness ==
    /\ pc = "exited"
    /\ Len(samples) >= 2
    /\ samples[1] > samples[2]
    /\ stats.max = 1

\* C10: under fair scheduling of its three threads every execution of
\* run_case ends: both workers leave the start gate, see the stop gate and
\* return, both joins return and run_case returns.
C10_RunCaseTerminates ==
    <>(pc = "fs_returned" /\ \A w \in Workers : fs.t[w] = "done")

\* C10 witness: run_case has returned after both workers counted
C10_Witness ==
    /\ pc = "fs_returned"
    /\ fs.start /\ fs.stop
    /\ \A w \in Workers : fs.t[w] = "done"
    /\ fs.a > 0 /\ fs.b > 0

=============================================================================
